---------------------------- MODULE Spec2Model ----------------------------
(***************************************************************************)
(* Model of the Alani AST builder (src/src/ast): to_ast, pairs_to_ast,    *)
(* create_ast_node, parse_symbol, parse_quantifier and the text           *)
(* unescapers of utils.rs.                                                 *)
(*                                                                         *)
(* Strings are sequences of one-character strings, so that slicing,       *)
(* prefix tests and substring replacement are computed as the code        *)
(* computes them.  A token (pest Pair) is a record                        *)
(*   [rule |-> rule tag, str |-> matched text, inner |-> child tokens].   *)
(* A Result is [ok |-> TRUE, val |-> v] or [ok |-> FALSE, err |-> name].  *)
(*                                                                         *)
(* The variable environment (env) that to_ast creates and threads through *)
(* the recursion is never read or written by the code, so the operators   *)
(* below do not carry it.                                                  *)
(***************************************************************************)
EXTENDS Naturals, Sequences, FiniteSets

VARIABLES source, pc, pairs, pos, nodes, result, parserCalls

vars == <<source, pc, pairs, pos, nodes, result, parserCalls>>

\* Bounds of the model.
MaxTokens == 2
MaxLen == 4

---------------------------------------------------------------------------
\* Generic helpers

Ok(v) == [ok |-> TRUE, val |-> v]
Err(e) == [ok |-> FALSE, err |-> e]
Tok(r, s, in) == [rule |-> r, str |-> s, inner |-> in]

\* All sequences over S of length 0..n.
SeqsUpTo(S, n) == UNION {[1..k -> S] : k \in 0..n}

\* str::starts_with
starts_with(s, prefix) ==
    /\ Len(s) >= Len(prefix)
    /\ SubSeq(s, 1, Len(prefix)) = prefix

\* str::replace: every non-overlapping match of pat, left to right.
RECURSIVE replace(_, _, _)
replace(s, pat, to) ==
    IF s = <<>> THEN <<>>
    ELSE IF starts_with(s, pat)
         THEN to \o replace(SubSeq(s, Len(pat) + 1, Len(s)), pat, to)
         ELSE <<Head(s)>> \o replace(Tail(s), pat, to)

\* The backtick character (the one character a TLA+ string cannot spell).
Backtick == "BACKTICK"

\* &s[1..s.len() - 1]
strip_first_last(s) == SubSeq(s, 2, Len(s) - 1)

---------------------------------------------------------------------------
\* utils.rs: the text unescaper

RESERVED_CHARS ==
    {"[", "]", "(", ")", "{", "}", "*", "+", "?", "|", "^", "$", ".", "-", "\\"}

RECURSIVE escape_chars(_)
escape_chars(src) ==
    IF src = <<>> THEN <<>>
    ELSE (IF Head(src) \in RESERVED_CHARS
          THEN <<"\\", Head(src)>>
          ELSE <<Head(src)>>) \o escape_chars(Tail(src))

\* The pattern the raw mode replaces: backslash, backtick.
RawEscapedDelimiter == <<"\\", Backtick>>

unquote_escape_raw_Escaping(pair_str) ==
    replace(strip_first_last(escape_chars(pair_str)), RawEscapedDelimiter, <<Backtick>>)

unquote_escape_raw(pair_str) ==
    replace(strip_first_last(pair_str), RawEscapedDelimiter, <<Backtick>>)

\* The pattern the quoted mode replaces: backslash, backslash, quote.
LiteralEscapedQuoteNoBackslash(q) == <<"\\", q>>
LiteralEscapedQuote(q) == <<"\\", "\\", q>>

unquote_escape_literal(raw_literal) ==
    LET quote_type == IF raw_literal = <<>> THEN "\"" ELSE Head(raw_literal)
        pair_str == escape_chars(raw_literal)
        literal == strip_first_last(pair_str)
    IN CASE quote_type = "\"" -> replace(literal, LiteralEscapedQuote("\""), <<"\"">>)
         [] quote_type = "'" -> replace(literal, LiteralEscapedQuote("'"), <<"'">>)

---------------------------------------------------------------------------
\* Program text constants: the names parse_symbol matches on, and the markers

N_space == <<"s", "p", "a", "c", "e">>
N_newline == <<"n", "e", "w", "l", "i", "n", "e">>
N_vertical == <<"v", "e", "r", "t", "i", "c", "a", "l">>
N_word == <<"w", "o", "r", "d">>
N_digit == <<"d", "i", "g", "i", "t">>
N_whitespace == <<"w", "h", "i", "t", "e", "s", "p", "a", "c", "e">>
N_boundary == <<"b", "o", "u", "n", "d", "a", "r", "y">>
N_alphabetic == <<"a", "l", "p", "h", "a", "b", "e", "t", "i", "c">>
N_alphanumeric == <<"a", "l", "p", "h", "a", "n", "u", "m", "e", "r", "i", "c">>
N_return == <<"r", "e", "t", "u", "r", "n">>
N_tab == <<"t", "a", "b">>
N_null == <<"n", "u", "l", "l">>
N_feed == <<"f", "e", "e", "d">>
N_char == <<"c", "h", "a", "r">>
N_backspace == <<"b", "a", "c", "k", "s", "p", "a", "c", "e">>
N_start == <<"s", "t", "a", "r", "t">>
N_end == <<"e", "n", "d">>

\* constants.rs: the negation marker and the lazy marker.
NOT == <<"n", "o", "t">>
LAZY == <<"l", "a", "z", "y">>

\* source_to_ast.rs: the match symbol table of parse_symbol.
KnownSymbols ==
    {N_space, N_newline, N_vertical, N_word, N_digit, N_whitespace, N_boundary, N_alphabetic,
     N_alphanumeric, N_return, N_tab, N_null, N_feed, N_char, N_backspace}

SymbolKindOf(symbol) ==
    CASE symbol = N_space -> "Space"
      [] symbol = N_newline -> "Newline"
      [] symbol = N_vertical -> "Vertical"
      [] symbol = N_word -> "Word"
      [] symbol = N_digit -> "Digit"
      [] symbol = N_whitespace -> "Whitespace"
      [] symbol = N_boundary -> "Boundary"
      [] symbol = N_alphabetic -> "Alphabetic"
      [] symbol = N_alphanumeric -> "Alphanumeric"
      [] symbol = N_return -> "Return"
      [] symbol = N_tab -> "Tab"
      [] symbol = N_null -> "Null"
      [] symbol = N_feed -> "Feed"
      [] symbol = N_char -> "Char"
      [] symbol = N_backspace -> "Backspace"

---------------------------------------------------------------------------
\* utils.rs: child access

first_inner(pair) ==
    IF pair.inner = <<>> THEN Err("MissingNode") ELSE Ok(pair.inner[1])

last_inner(pair) ==
    IF pair.inner = <<>> THEN Err("MissingNode")
    ELSE Ok(pair.inner[Len(pair.inner)])

first_last_inner_str(pair) ==
    IF pair.inner = <<>> THEN Err("MissingNode")
    ELSE Ok(<<pair.inner[1].str, pair.inner[Len(pair.inner)].str>>)

---------------------------------------------------------------------------
\* types.rs: the values of the AST

Atom(text) == [tag |-> "Atom", text |-> text]
SymbolNode(kind, negated) == [tag |-> "Symbol", kind |-> kind, negated |-> negated]
QuantifierNode(kind, lazy, expression) ==
    [tag |-> "Quantifier", kind |-> kind, lazy |-> lazy, expression |-> expression]
Skip == [tag |-> "Skip"]

Empty == [variant |-> "Empty"]
Root(ns) == [variant |-> "Root", nodes |-> ns]

---------------------------------------------------------------------------
\* source_to_ast.rs: parse_symbol

\* The test that decides negated: the first sub-token's text is the marker.
is_negated(marker) == marker = NOT

\* The anchor check: "start" and "end" must not be negated.
negation_check_NoEnd(negated, symbol) ==
    IF negated /\ symbol = N_start THEN Err("NegativeStartNotAllowed")
    ELSE Ok(symbol)

negation_check(negated, symbol) ==
    IF negated /\ symbol = N_start THEN Err("NegativeStartNotAllowed")
    ELSE IF negated /\ symbol = N_end THEN Err("NegativeEndNotAllowed")
    ELSE Ok(symbol)

\* The table lookup: a hit builds the Symbol node, a miss fails.
symbol_node_SwappedArm(symbol, negated) ==
    IF symbol \in KnownSymbols
    THEN Ok(SymbolNode(IF symbol = N_return THEN "Tab" ELSE SymbolKindOf(symbol), negated))
    ELSE Err("UnrecognizedSymbol")

symbol_node(symbol, negated) ==
    IF symbol \in KnownSymbols
    THEN Ok(SymbolNode(SymbolKindOf(symbol), negated))
    ELSE Err("UnrecognizedSymbol")

parse_symbol(pair) ==
    LET strs == first_last_inner_str(pair)
    IN IF ~strs.ok THEN strs
       ELSE LET negated == is_negated(strs.val[1])
                symbol == strs.val[2]
                checked == negation_check(negated, symbol)
            IN IF ~checked.ok THEN checked
               ELSE symbol_node(symbol, negated)

---------------------------------------------------------------------------
\* source_to_ast.rs: parse_quantifier and create_ast_node

\* The match that narrows a built node to an Expression.
narrow_expression_AllowQuantifier(node) ==
    CASE node.tag = "Atom" -> Ok(node)
      [] node.tag = "Symbol" -> Ok(node)
      [] node.tag = "Quantifier" -> Ok(node)
      [] node.tag = "Skip" -> Err("UnexpectedSkippedNodeInQuantifier")

narrow_expression(node) ==
    CASE node.tag = "Atom" -> Ok(Atom(node.text))
      [] node.tag = "Symbol" -> Ok(SymbolNode(node.kind, node.negated))
      [] node.tag = "Quantifier" -> Err("UnexpectedQuantifierInQuantifier")
      [] node.tag = "Skip" -> Err("UnexpectedSkippedNodeInQuantifier")

\* quantity.as_str().starts_with(LAZY)
is_lazy_Equals(quantity_str) == quantity_str = LAZY

is_lazy(quantity_str) == starts_with(quantity_str, LAZY)

\* The kind of a quantifier, from the kind sub-token (the part of
\* parse_quantifier the source leaves unwritten, after section 4.3).
QuantifierKindOf(kind) ==
    CASE kind.rule = "range" -> [variant |-> "Range", text |-> kind.str]
      [] kind.rule = "some" -> [variant |-> "Some", text |-> <<>>]
      [] kind.rule = "any" -> [variant |-> "Any", text |-> <<>>]
      [] kind.rule = "over" -> [variant |-> "Over", text |-> kind.str]
      [] kind.rule = "option" -> [variant |-> "Option", text |-> <<>>]
      [] kind.rule = "amount" -> [variant |-> "Amount", text |-> kind.str]

\* Step (5) of section 4.3: the node parse_quantifier returns.
make_quantifier(kind, lazy, expression) ==
    Ok(QuantifierNode(QuantifierKindOf(kind), lazy, expression))

RECURSIVE create_ast_node(_), parse_quantifier(_)

create_ast_node_DropUnknown(pair) ==
    CASE pair.rule = "raw" -> Ok(Atom(unquote_escape_raw(pair.str)))
      [] pair.rule = "literal" -> Ok(Atom(unquote_escape_literal(pair.str)))
      [] pair.rule = "symbol" -> parse_symbol(pair)
      [] pair.rule = "quantifier" -> parse_quantifier(pair)
      [] OTHER -> Ok(Skip)

create_ast_node(pair) ==
    CASE pair.rule = "raw" -> Ok(Atom(unquote_escape_raw(pair.str)))
      [] pair.rule = "literal" -> Ok(Atom(unquote_escape_literal(pair.str)))
      [] pair.rule = "symbol" -> parse_symbol(pair)
      [] pair.rule = "quantifier" -> parse_quantifier(pair)
      [] pair.rule = "EOI" -> Ok(Skip)
      [] OTHER -> Err("UnrecognizedSyntax")

parse_quantifier(pair) ==
    LET quantity == first_inner(pair)
    IN IF ~quantity.ok THEN quantity
       ELSE LET kind == first_inner(quantity.val)
            IN IF ~kind.ok THEN kind
               ELSE LET last == last_inner(pair)
                    IN IF ~last.ok THEN last
                       ELSE LET built == create_ast_node(last.val)
                            IN IF ~built.ok THEN built
                               ELSE LET expression == narrow_expression(built.val)
                                    IN IF ~expression.ok THEN expression
                                       ELSE make_quantifier(kind.val,
                                                is_lazy(quantity.val.str),
                                                expression.val)

---------------------------------------------------------------------------
\* The Token Source (parser.rs and the grammar, which the repository keeps
\* outside these files): the tokens it hands to the builder.

NameTok(name) == Tok("symbol_name", name, <<>>)
NotTok == Tok("negative", NOT, <<>>)

\* A symbol token: the marker sub-token when negated, then the name.
SymbolTok(negated, name) ==
    Tok("symbol",
        (IF negated THEN NOT \o <<" ">> ELSE <<>>) \o <<"<">> \o name \o <<">">>,
        (IF negated THEN <<NotTok>> ELSE <<>>) \o <<NameTok(name)>>)

KindToks ==
    {Tok("some", <<"s", "o", "m", "e">>, <<>>),
     Tok("any", <<"a", "n", "y">>, <<>>),
     Tok("option", <<"o", "p", "t", "i", "o", "n">>, <<>>),
     Tok("over", <<"o", "v", "e", "r", " ", "3">>, <<>>),
     Tok("amount", <<"3">>, <<>>),
     Tok("range", <<"1", " ", "t", "o", " ", "3">>, <<>>)}

\* A quantity token: its text starts with the lazy marker when lazy; its
\* first child is the kind.
QuantityTok(lazy, kind) ==
    Tok("quantity",
        (IF lazy THEN LAZY \o <<" ">> ELSE <<>>) \o kind.str \o <<" ", "o", "f">>,
        <<kind>>)

QuantifierTok(quantity, operand) ==
    Tok("quantifier", quantity.str \o <<" ">> \o operand.str, <<quantity, operand>>)

EOITok == Tok("EOI", <<>>, <<>>)

RawAB == Tok("raw", <<Backtick, "a", ".", "b", Backtick>>, <<>>)
LitAB == Tok("literal", <<"\"", "a", ".", "b", "\"">>, <<>>)
N_foo == <<"f", "o", "o">>

\* The rule tags of the grammar that create_ast_node has no arm for.
UnimplementedRules ==
    {"range", "group", "assertion", "negative_char_class",
     "variable_invocation", "variable_declaration"}

UnimplementedToks == {Tok(r, <<"x">>, <<>>) : r \in UnimplementedRules}

SomeTok == CHOOSE k \in KindToks : k.rule = "some"
AmountTok == CHOOSE k \in KindToks : k.rule = "amount"

\* The top-level constructs of the sources the model enumerates.
LeafConstructs ==
    {RawAB, LitAB,
     SymbolTok(FALSE, N_space), SymbolTok(TRUE, N_digit),
     SymbolTok(TRUE, N_start), SymbolTok(TRUE, N_end),
     SymbolTok(FALSE, N_start), SymbolTok(FALSE, N_foo)}

QuantifierConstructs ==
    {QuantifierTok(q, o) :
        q \in {QuantityTok(TRUE, SomeTok), QuantityTok(FALSE, AmountTok)},
        o \in {RawAB, SymbolTok(FALSE, N_space), SymbolTok(TRUE, N_start),
               SymbolTok(TRUE, N_end), Tok("group", <<"x">>, <<>>),
               QuantifierTok(QuantityTok(FALSE, SomeTok), RawAB)}}

Constructs == LeafConstructs \cup UnimplementedToks \cup QuantifierConstructs

\* What a source text is made of: constructs, blank space between them, and
\* text the grammar rejects.
WhitespaceItem == Tok("WHITESPACE", <<" ">>, <<>>)
JunkItem == Tok("JUNK", <<"#">>, <<>>)
Items == Constructs \cup {WhitespaceItem, JunkItem}

Sources == SeqsUpTo(Items, MaxTokens)

\* The constructs of a source, in source order.
RECURSIVE ConstructsOf(_)
ConstructsOf(src) ==
    IF src = <<>> THEN <<>>
    ELSE (IF Head(src) = WhitespaceItem THEN <<>> ELSE <<Head(src)>>)
         \o ConstructsOf(Tail(src))

\* AlaniParser::parse(Rule::root, source): an error for text outside the
\* grammar, else the one root pair, whose children are the constructs
\* followed by the end-of-input token.
AlaniParser_parse(src) ==
    IF \E i \in 1..Len(src) : src[i] = JunkItem
    THEN Err("ParseError")
    ELSE Ok(<<Tok("root", <<>>, ConstructsOf(src) \o <<EOITok>>)>>)

---------------------------------------------------------------------------
\* to_ast and pairs_to_ast as a state machine

NoResult == [pending |-> TRUE]

Init ==
    /\ source \in Sources
    /\ pc = "to_ast"
    /\ pairs = <<>>
    /\ pos = 0
    /\ nodes = <<>>
    /\ result = NoResult
    /\ parserCalls = 0

\* source.is_empty()
is_empty_Never(src) == FALSE

is_empty(src) == src = <<>>

\* to_ast, empty source: return Ok(AlaniAst::Empty) at once.
ToAstEmpty ==
    /\ pc = "to_ast"
    /\ is_empty(source)
    /\ result' = Ok(Empty)
    /\ pc' = "done"
    /\ UNCHANGED <<source, pairs, pos, nodes, parserCalls>>

\* to_ast, non-empty source: parse, take the root pair, enter pairs_to_ast
\* over its children.
ToAstParse ==
    /\ pc = "to_ast"
    /\ ~is_empty(source)
    /\ parserCalls' = parserCalls + 1
    /\ LET parsed == AlaniParser_parse(source)
       IN IF ~parsed.ok
          THEN /\ result' = parsed
               /\ pc' = "done"
               /\ UNCHANGED <<pairs, pos, nodes>>
          ELSE IF parsed.val = <<>>
          THEN /\ result' = Err("MissingRootNode")
               /\ pc' = "done"
               /\ UNCHANGED <<pairs, pos, nodes>>
          ELSE /\ pairs' = parsed.val[1].inner
               /\ pos' = 0
               /\ nodes' = <<>>
               /\ pc' = "pairs_to_ast"
               /\ UNCHANGED result
    /\ UNCHANGED source

\* nodes.push(node)
push_node_Prepend(ns, node) == <<node>> \o ns

push_node(ns, node) == Append(ns, node)

\* The body of the for loop, given what create_ast_node returned: the ?
\* operator returns the error, otherwise the node is pushed.
loop_body_SkipError(ns, built) ==
    IF built.ok
    THEN [returns |-> FALSE, nodes |-> push_node(ns, built.val), result |-> NoResult]
    ELSE [returns |-> FALSE, nodes |-> ns, result |-> NoResult]

loop_body(ns, built) ==
    IF built.ok
    THEN [returns |-> FALSE, nodes |-> push_node(ns, built.val), result |-> NoResult]
    ELSE [returns |-> TRUE, nodes |-> ns, result |-> built]

\* pairs_to_ast, one iteration of the for loop over the pairs.
PairsToAstNext ==
    /\ pc = "pairs_to_ast"
    /\ pos < Len(pairs)
    /\ pos' = pos + 1
    /\ LET step == loop_body(nodes, create_ast_node(pairs[pos + 1]))
       IN /\ nodes' = step.nodes
          /\ IF step.returns
             THEN result' = step.result /\ pc' = "done"
             ELSE UNCHANGED <<result, pc>>
    /\ UNCHANGED <<source, pairs, parserCalls>>

\* pairs_to_ast, after the loop: Ok(AlaniAst::Root(nodes)).
PairsToAstReturn ==
    /\ pc = "pairs_to_ast"
    /\ pos = Len(pairs)
    /\ result' = Ok(Root(nodes))
    /\ pc' = "done"
    /\ UNCHANGED <<source, pairs, pos, nodes, parserCalls>>

Next == ToAstEmpty \/ ToAstParse \/ PairsToAstNext \/ PairsToAstReturn

Spec == Init /\ [][Next]_vars

---------------------------------------------------------------------------
\* parse_symbol on its own: every name, with and without the marker

N_Space == <<"S", "p", "a", "c", "e">>
N_spaces == <<"s", "p", "a", "c", "e", "s">>
N_spac == <<"s", "p", "a", "c">>
N_starts == <<"s", "t", "a", "r", "t", "s">>
N_star == <<"s", "t", "a", "r">>
N_ends == <<"e", "n", "d", "s">>
N_en == <<"e", "n">>
N_line == <<"l", "i", "n", "e">>
N_any == <<"a", "n", "y">>
N_lazy == <<"l", "a", "z", "y">>

OtherNames ==
    {NOT, N_foo, N_Space, N_spaces, N_spac, N_starts, N_star, N_ends, N_en,
     N_line, N_any, N_lazy}

SymbolNames == KnownSymbols \cup {N_start, N_end} \cup OtherNames

SymbolInputs == {SymbolTok(neg, n) : neg \in BOOLEAN, n \in SymbolNames}

InitSymbol ==
    /\ source = <<>>
    /\ pc = "parse_symbol"
    /\ pairs \in {<<t>> : t \in SymbolInputs}
    /\ pos = 0
    /\ nodes = <<>>
    /\ result = NoResult
    /\ parserCalls = 0

ParseSymbolCall ==
    /\ pc = "parse_symbol"
    /\ result' = parse_symbol(pairs[1])
    /\ pos' = 1
    /\ pc' = "done"
    /\ UNCHANGED <<source, pairs, nodes, parserCalls>>

NextSymbol == ParseSymbolCall

SpecSymbol == InitSymbol /\ [][NextSymbol]_vars

---------------------------------------------------------------------------
\* parse_quantifier on its own: every kind, lazy or not, over every operand

Quantities == {QuantityTok(lazy, k) : lazy \in BOOLEAN, k \in KindToks}

LeafOperands ==
    {RawAB, LitAB, SymbolTok(FALSE, N_space), SymbolTok(TRUE, N_digit),
     SymbolTok(TRUE, N_start), SymbolTok(FALSE, N_foo),
     Tok("group", <<"x">>, <<>>), EOITok}

NestedOperands ==
    {QuantifierTok(q, o) :
        q \in {QuantityTok(TRUE, SomeTok), QuantityTok(FALSE, AmountTok)},
        o \in {RawAB, SymbolTok(FALSE, N_space), SymbolTok(TRUE, N_end), EOITok}}

QuantifierInputs ==
    {QuantifierTok(q, o) : q \in Quantities, o \in LeafOperands \cup NestedOperands}

InitQuantifier ==
    /\ source = <<>>
    /\ pc = "parse_quantifier"
    /\ pairs \in {<<t>> : t \in QuantifierInputs}
    /\ pos = 0
    /\ nodes = <<>>
    /\ result = NoResult
    /\ parserCalls = 0

ParseQuantifierCall ==
    /\ pc = "parse_quantifier"
    /\ result' = parse_quantifier(pairs[1])
    /\ pos' = 1
    /\ pc' = "done"
    /\ UNCHANGED <<source, pairs, nodes, parserCalls>>

NextQuantifier == ParseQuantifierCall

SpecQuantifier == InitQuantifier /\ [][NextQuantifier]_vars

---------------------------------------------------------------------------
\* The text unescaper, through the raw and literal arms of create_ast_node

Alphabet == {"a", "b", ".", "\\", "\"", "'", Backtick}

\* Inside a token the delimiter occurs only behind a backslash.
DelimiterEscaped(content, d) ==
    \A i \in 1..Len(content) :
        content[i] = d => (i > 1 /\ content[i - 1] = "\\")

Contents(d) == {c \in SeqsUpTo(Alphabet, MaxLen) : DelimiterEscaped(c, d)}

Delimited(d, content) == <<d>> \o content \o <<d>>

TextInputs ==
    {Tok("literal", Delimited(d, c), <<>>) : d \in {"\""}, c \in Contents("\"")}
    \cup {Tok("literal", Delimited(d, c), <<>>) : d \in {"'"}, c \in Contents("'")}
    \cup {Tok("raw", Delimited(d, c), <<>>) : d \in {Backtick}, c \in Contents(Backtick)}

InitText ==
    /\ source = <<>>
    /\ pc = "create_ast_node"
    /\ pairs \in {<<t>> : t \in TextInputs}
    /\ pos = 0
    /\ nodes = <<>>
    /\ result = NoResult
    /\ parserCalls = 0

BuildAtom ==
    /\ pc = "create_ast_node"
    /\ result' = create_ast_node(pairs[1])
    /\ pos' = 1
    /\ pc' = "done"
    /\ UNCHANGED <<source, pairs, nodes, parserCalls>>

NextText == BuildAtom

SpecText == InitText /\ [][NextText]_vars

---------------------------------------------------------------------------
\* Properties

Done == pc = "done"
Returned(ast) == Done /\ result.ok /\ result.val = ast
BuildsOk(t) == create_ast_node(t).ok
NodeOf(t) == create_ast_node(t).val

\* C1 as stated: for a source of N valid top-level constructs, to_ast
\* returns Root with exactly N nodes, the i-th the node of the i-th construct.
C1_AsStated ==
    (Done /\ result.ok /\ result.val.variant = "Root") =>
        LET cs == ConstructsOf(source)
        IN /\ Len(result.val.nodes) = Len(cs)
           /\ \A i \in 1..Len(cs) : result.val.nodes[i] = NodeOf(cs[i])

\* C1, amended: for a non-empty source of N valid top-level constructs,
\* to_ast returns Root with exactly N + 1 nodes: the i-th is the node of
\* the i-th construct, in source order, and the last is the Skip node built
\* from the end-of-input token that closes the root pair's children.
C1_RootNodesInOrder ==
    LET cs == ConstructsOf(source)
    IN (Done /\ source # <<>> /\ AlaniParser_parse(source).ok
          /\ \A i \in 1..Len(cs) : BuildsOk(cs[i])) =>
        /\ result.ok
        /\ result.val.variant = "Root"
        /\ Len(result.val.nodes) = Len(cs) + 1
        /\ \A i \in 1..Len(cs) : result.val.nodes[i] = NodeOf(cs[i])
        /\ result.val.nodes[Len(cs) + 1] = Skip

C1_Witness ==
    /\ Done
    /\ source = <<SymbolTok(TRUE, N_digit), RawAB>>
    /\ result = Ok(Root(<<SymbolNode("Digit", TRUE), Atom(<<"a", ".", "b">>), Skip>>))

\* C2: to_ast on the empty source returns Empty, never Root, and does not
\* call the parser; Empty is returned for no other source.
C2_EmptyIffEmptySource ==
    Done =>
        /\ (source = <<>> => result = Ok(Empty) /\ parserCalls = 0)
        /\ (result.ok /\ result.val = Empty => source = <<>>)
        /\ (source # <<>> => parserCalls = 1)

C2_Witness == Returned(Empty) /\ source = <<>> /\ parserCalls = 0

\* C3: the kind the claim gives each of the fifteen names.
ClaimedKinds ==
    {<<N_space, "Space">>, <<N_newline, "Newline">>, <<N_vertical, "Vertical">>,
     <<N_word, "Word">>, <<N_digit, "Digit">>, <<N_whitespace, "Whitespace">>,
     <<N_boundary, "Boundary">>, <<N_alphabetic, "Alphabetic">>,
     <<N_alphanumeric, "Alphanumeric">>, <<N_return, "Return">>, <<N_tab, "Tab">>,
     <<N_null, "Null">>, <<N_feed, "Feed">>, <<N_char, "Char">>,
     <<N_backspace, "Backspace">>}

\* C3: parse_symbol on each of the fifteen names, marker present or not,
\* returns the Symbol of that name's kind, negated exactly when the marker
\* is present; on any other name (a negated start or end aside, which have
\* their own errors) it fails with UnrecognizedSymbol.
C3_SymbolTable ==
    (Done /\ pairs[1].rule = "symbol") =>
        \A neg \in BOOLEAN, n \in SymbolNames :
            pairs[1] = SymbolTok(neg, n) =>
                /\ \A p \in ClaimedKinds :
                       p[1] = n => result = Ok(SymbolNode(p[2], neg))
                /\ ((\A p \in ClaimedKinds : p[1] # n)
                      /\ ~(neg /\ n \in {N_start, N_end}))
                       => result = Err("UnrecognizedSymbol")

C3_Witness ==
    /\ Done
    /\ pairs[1] = SymbolTok(TRUE, N_return)
    /\ result = Ok(SymbolNode("Return", TRUE))

\* Whether token t is a symbol negating the anchor, or a quantifier whose
\* operand is.
NegatesAnchor(t, anchor) ==
    \/ t = SymbolTok(TRUE, anchor)
    \/ /\ t.rule = "quantifier"
       /\ t.inner[Len(t.inner)] = SymbolTok(TRUE, anchor)

\* C4: when the pair to_ast has just built negates "start" ("end"), as a
\* top-level symbol or as the operand of a quantifier, to_ast has returned
\* NegativeStartNotAllowed (NegativeEndNotAllowed) and no other error.
C4_NegatedAnchorError ==
    (pc \in {"pairs_to_ast", "done"} /\ pos >= 1 /\ pairs # <<>>) =>
        /\ NegatesAnchor(pairs[pos], N_start)
              => Done /\ result = Err("NegativeStartNotAllowed")
        /\ NegatesAnchor(pairs[pos], N_end)
              => Done /\ result = Err("NegativeEndNotAllowed")

C4_Witness ==
    /\ Done
    /\ pos = 2
    /\ pairs[pos] = QuantifierTok(QuantityTok(TRUE, SomeTok), SymbolTok(TRUE, N_end))
    /\ result = Err("NegativeEndNotAllowed")

\* The rule tags the claim says are built.
ClaimedRules == {"raw", "literal", "symbol", "quantifier", "EOI"}

\* C5: when the pair just built has a rule tag outside raw, literal, symbol,
\* quantifier and end-of-input (or is a quantifier over such a pair), to_ast
\* has returned UnrecognizedSyntax and no node was pushed for it.
C5_UnknownRuleFails ==
    (pc \in {"pairs_to_ast", "done"} /\ pos >= 1 /\ pairs # <<>>) =>
        LET t == pairs[pos]
        IN (\/ t.rule \notin ClaimedRules
            \/ /\ t.rule = "quantifier"
               /\ t.inner[Len(t.inner)].rule \notin ClaimedRules)
           => /\ Done
              /\ result = Err("UnrecognizedSyntax")
              /\ Len(nodes) = pos - 1

C5_Witness ==
    /\ Done
    /\ pos = 2
    /\ pairs[pos].rule = "variable_declaration"
    /\ result = Err("UnrecognizedSyntax")
    /\ Len(nodes) = 1

\* C6: parse_quantifier on a quantifier whose last sub-token builds to an
\* Atom or a Symbol returns a Quantifier whose expression is that atom or
\* symbol; it fails with UnexpectedQuantifierInQuantifier when the sub-token
\* builds to a Quantifier and with UnexpectedSkippedNodeInQuantifier when it
\* builds to Skip.
C6_QuantifierOperand ==
    (Done /\ pairs[1].rule = "quantifier") =>
        LET operand == pairs[1].inner[Len(pairs[1].inner)]
        IN BuildsOk(operand) =>
            /\ NodeOf(operand).tag \in {"Atom", "Symbol"} =>
                  /\ result.ok
                  /\ result.val.tag = "Quantifier"
                  /\ result.val.expression = NodeOf(operand)
            /\ NodeOf(operand).tag = "Quantifier" =>
                  result = Err("UnexpectedQuantifierInQuantifier")
            /\ NodeOf(operand).tag = "Skip" =>
                  result = Err("UnexpectedSkippedNodeInQuantifier")

C6_Witness ==
    /\ Done
    /\ pairs[1].rule = "quantifier"
    /\ pairs[1].inner[2] = QuantifierTok(QuantityTok(FALSE, AmountTok), RawAB)
    /\ result = Err("UnexpectedQuantifierInQuantifier")

\* C7: every Quantifier that parse_quantifier builds has lazy true exactly
\* when the quantity text begins with the lazy marker, whatever the kind
\* and the operand.
C7_LazyFlag ==
    (Done /\ pairs[1].rule = "quantifier" /\ result.ok) =>
        \A lazy \in BOOLEAN, k \in KindToks :
            pairs[1].inner[1] = QuantityTok(lazy, k) =>
                /\ result.val.lazy = lazy
                /\ result.val.kind.variant = QuantifierKindOf(k).variant

C7_Witness ==
    /\ Done
    /\ pairs[1].rule = "quantifier"
    /\ result.ok
    /\ result.val.lazy
    /\ result.val.kind.variant = "Range"
    /\ result.val.expression = SymbolNode("Digit", TRUE)

\* The index of the first pair that fails to build, 0 when none does.
FirstFailing(ps) ==
    IF \A i \in 1..Len(ps) : BuildsOk(ps[i]) THEN 0
    ELSE CHOOSE i \in 1..Len(ps) :
            /\ ~BuildsOk(ps[i])
            /\ \A j \in 1..(i - 1) : BuildsOk(ps[j])

\* C8: if any pair fails to build, to_ast returns the error of the first
\* failing pair, unchanged; the loop stopped at that pair, having pushed only
\* the nodes before it, and what is returned is the error alone.  A
\* quantifier's error is its operand's when the operand fails.
C8_FailFast ==
    (Done /\ pairs # <<>>) =>
        LET f == FirstFailing(pairs)
        IN /\ f > 0 =>
                /\ result = create_ast_node(pairs[f])
                /\ ~result.ok
                /\ DOMAIN result = {"ok", "err"}
                /\ pos = f
                /\ Len(nodes) = f - 1
                /\ pairs[f].rule = "quantifier"
                      /\ ~BuildsOk(pairs[f].inner[Len(pairs[f].inner)])
                      => result = create_ast_node(pairs[f].inner[Len(pairs[f].inner)])
           /\ f = 0 => result.ok
           /\ ~ENABLED Next

C8_Witness ==
    /\ Done
    /\ Len(pairs) = 3
    /\ pairs[1] = SymbolTok(FALSE, N_foo)
    /\ pairs[2] = SymbolTok(TRUE, N_start)
    /\ result = Err("UnrecognizedSymbol")
    /\ pos = 1
    /\ nodes = <<>>

\* C9, the claim's reading of quoted mode: scanning the content left to
\* right, a backslash followed by the opening quote gives a bare quote, any
\* other reserved character gives a backslash and the character, and any
\* other character gives itself.
RECURSIVE ClaimedQuoted(_, _)
ClaimedQuoted(content, q) ==
    IF content = <<>> THEN <<>>
    ELSE IF Len(content) >= 2 /\ content[1] = "\\" /\ content[2] = q
         THEN <<q>> \o ClaimedQuoted(SubSeq(content, 3, Len(content)), q)
         ELSE (IF Head(content) \in {"[", "]", "(", ")", "{", "}", "*", "+", "?",
                                     "|", "^", "$", ".", "-", "\\"}
               THEN <<"\\", Head(content)>>
               ELSE <<Head(content)>>) \o ClaimedQuoted(Tail(content), q)

\* C9: a quoted token builds to the atom of its content with every reserved
\* character behind a backslash, except that each escaped opening quote is a
\* bare quote.
C9_QuotedUnescape ==
    (Done /\ pairs[1].rule = "literal") =>
        LET s == pairs[1].str
        IN result = Ok(Atom(ClaimedQuoted(SubSeq(s, 2, Len(s) - 1), s[1])))

C9_Witness ==
    /\ Done
    /\ pairs[1] = Tok("literal", <<"\"", "a", "\\", "\"", "b", "\"">>, <<>>)
    /\ result = Ok(Atom(<<"a", "\"", "b">>))

\* C10, the claim's reading of raw mode: a backslash followed by a backtick
\* gives a backtick, every other character gives itself.
RECURSIVE ClaimedRaw(_)
ClaimedRaw(content) ==
    IF content = <<>> THEN <<>>
    ELSE IF Len(content) >= 2 /\ content[1] = "\\" /\ content[2] = Backtick
         THEN <<Backtick>> \o ClaimedRaw(SubSeq(content, 3, Len(content)))
         ELSE <<Head(content)>> \o ClaimedRaw(Tail(content))

\* C10: a raw token builds to the atom of its text without the first and
\* last characters, each backslash-backtick replaced by a backtick and
\* nothing else changed.
C10_RawUnescape ==
    (Done /\ pairs[1].rule = "raw") =>
        LET s == pairs[1].str
        IN result = Ok(Atom(ClaimedRaw(SubSeq(s, 2, Len(s) - 1))))

C10_Witness ==
    /\ Done
    /\ pairs[1] = Tok("raw", <<Backtick, "a", "\\", Backtick, ".", Backtick>>, <<>>)
    /\ result = Ok(Atom(<<"a", Backtick, ".">>))

=============================================================================
